---- MODULE Spec2Model ----
(***************************************************************************)
(* A model of the usbinfo package: the public query API                    *)
(* (usbinfo/__init__.py), the device-manager enumerator (usbinfo/linux.py) *)
(* and the registry walker (usbinfo/darwin.py) with its sanitizer of the   *)
(* registry dumps (_sanitize_xml), which works on byte strings: sequences  *)
(* of the integers 0..255.                                                 *)
(*                                                                         *)
(* Python strings are sequences of one-character strings, so that          *)
(* formatting ('%0.4x', str), parsing (int(s, 16), isdigit) and encoding   *)
(* (encode('ascii', 'ignore')) are computed and not assumed.  Values that  *)
(* reach a raw record, an Endpoint or a filter carry their Python type:    *)
(* [t |-> "str" | "int" | "None" | "list", v |-> ...].                     *)
(***************************************************************************)
EXTENDS Integers, Sequences, FiniteSets, TLC

VARIABLES
    platform,   \* platform.system() of the host
    python,     \* the major version of the interpreter
    os_minor,   \* darwin.py OSX_VERSION_MINOR_INT
    listing,    \* Linux: what the device manager's iterator yields, in order
    registry,   \* Darwin: ioreg trees of AppleUSBXHCI + AppleUSBEHCI
    extras,     \* Darwin: ioreg trees of XHC1 and of EHC1
    mounts,     \* the mount list: device path -> mount point
    data,       \* the registry dump handed to _sanitize_xml, as bytes
    sanitized,  \* what the passes of _sanitize_xml over it returned, in order
    backend,    \* usbinfo/__init__.py: what the name __usbinfo is bound to
    pc,         \* position of the program
    call,       \* the entry point being executed
    filters,    \* endpoints(**filters)
    devices,    \* darwin.usbinfo: the list _ioreg_usb_devices() returned
    extra_devs, \* darwin.usbinfo: _el_capitan_extras
    dev_i,      \* index of the next item (Linux) / of the device node (Darwin)
    child_i,    \* Darwin: index of the next child of the current device node
    devinfo,    \* Darwin: devinfo of the current device node
    info_list,  \* the backend's info_list
    io,         \* the platform I/O performed by the current call, in order
    outcome,    \* how the call ended: "none", "returned" or the exception
    result      \* the value the call returned

vars == <<platform, python, os_minor, listing, registry, extras, mounts, data,
          sanitized, backend, pc, call, filters, devices, extra_devs, dev_i,
          child_i, devinfo, info_list, io, outcome, result>>

----------------------------------------------------------------------------
(* Python values *)

None == [t |-> "None", v |-> 0]
Str(s) == [t |-> "str", v |-> s]
IntV(n) == [t |-> "int", v |-> n]
ListV == [t |-> "list", v |-> 0]

\* Python's ==, between values of the types above.
PyEq(a, b) == a.t = b.t /\ a.v = b.v

\* dict.get(key, default)
DictGet(d, key, default) == IF key \in DOMAIN d THEN d[key] ELSE default

----------------------------------------------------------------------------
(* Conversions between integers and strings *)

HexDigits == <<"0", "1", "2", "3", "4", "5", "6", "7", "8", "9",
               "a", "b", "c", "d", "e", "f">>
DecDigits == {"0", "1", "2", "3", "4", "5", "6", "7", "8", "9"}

RECURSIVE Digits(_, _)
\* The digits of n >= 0 in the given base, most significant first.
Digits(n, base) ==
    IF n < base THEN <<HexDigits[n + 1]>>
    ELSE Append(Digits(n \div base, base), HexDigits[(n % base) + 1])

RECURSIVE ZeroPad(_, _)
ZeroPad(s, width) == IF Len(s) >= width THEN s ELSE ZeroPad(<<"0">> \o s, width)

\* Mutant of Fmt04x: '%x' % n, without the precision
Fmt04x_NoPrecision(n) == Digits(n, 16)

\* '%0.4x' % n: lower-case hexadecimal with a precision of 4, that is at
\* least 4 digits, padded with zeros on the left (n >= 0).
Fmt04x(n) == ZeroPad(Digits(n, 16), 4)

\* str(n) for n >= 0
PyStr(n) == Digits(n, 10)

DigitValue(c) == CHOOSE k \in 0..15 : HexDigits[k + 1] = c

IsHexString(s) == Len(s) > 0 /\ \A i \in 1..Len(s) : \E k \in 1..16 : HexDigits[k] = s[i]

RECURSIVE HexValue(_)
\* int(s, 16) for a string of hexadecimal digits
HexValue(s) ==
    IF Len(s) = 0 THEN 0
    ELSE 16 * HexValue(SubSeq(s, 1, Len(s) - 1)) + DigitValue(s[Len(s)])

RECURSIVE DecValue(_)
DecValue(s) ==
    IF Len(s) = 0 THEN 0
    ELSE 10 * DecValue(SubSeq(s, 1, Len(s) - 1)) + DigitValue(s[Len(s)])

\* str.isdigit(): not empty and every character a decimal digit
IsDigit(s) == Len(s) > 0 /\ \A i \in 1..Len(s) : s[i] \in DecDigits

AsciiChars == {"0", "1", "2", "3", "4", "5", "6", "7", "8", "9",
               "a", "b", "c", "d", "e", "f", "/", "t", "v", "m", "s", "A", "H", "k"}

IsAscii(c) == c \in AsciiChars

\* s.encode('ascii', 'ignore'): the characters outside ASCII are dropped
AsciiIgnore(s) == SelectSeq(s, IsAscii)

----------------------------------------------------------------------------
(* Strings of the platform state *)

Dev == <<"/", "d", "e", "v", "/">>
DevA == Dev \o <<"a">>          \* a block device
DevB == Dev \o <<"b">>          \* another block device
DevT == Dev \o <<"t">>          \* a serial device
MntM == <<"/", "m">>
MntV == <<"/", "v">>
EmptyStr == << >>

EmptyMap == [k \in {} |-> None]

\* posix.get_mounts(): the mapping from device path to mount point read from
\* the system mount list; both are absolute paths, hence not empty.
MountTables ==
    { EmptyMap,
      (DevA :> MntM),
      (DevA :> MntM) @@ (DevT :> MntV) }

get_mounts == mounts

----------------------------------------------------------------------------
(* usbinfo/linux.py *)

LinuxIdentities ==
    { EmptyMap,
      [ID_USB_INTERFACE_NUM |-> <<"0", "0">>, ID_VENDOR |-> <<"A", "k">>,
       ID_VENDOR_ID |-> <<"0", "5", "a", "c">>, ID_MODEL |-> <<"H">>,
       ID_MODEL_ID |-> <<"8", "0", "0", "7">>, ID_SERIAL_SHORT |-> <<"s", "1">>] }

\* The properties of one device of the device manager.
LinuxDevices ==
    LinuxIdentities \cup
    { id @@ ("DEVNAME" :> d) : id \in LinuxIdentities, d \in {DevA, DevB} }

\* What one next(device_it) does: it yields a device, or it raises
\* DeviceNotFoundError and the iterator moves on.
LinuxItems ==
    { [ok |-> TRUE, props |-> p] : p \in LinuxDevices } \cup
    { [ok |-> FALSE, props |-> EmptyMap] }

\* Mutant of DeviceGet: device.get(key), without the default
DeviceGet_NoDefault(device, key) ==
    IF key \in DOMAIN device.props THEN Str(device.props[key]) ELSE None

\* device.get(key, u'')
DeviceGet(device, key) == Str(DictGet(device.props, key, EmptyStr))

\* _mounts.get(path), path being a string or None; None when there is no entry
MountOf(mnt, path) ==
    IF path.t = "str" /\ path.v \in DOMAIN mnt THEN Str(mnt[path.v]) ELSE None

\* Python's truth value of a string or None
Truthy(x) == x.t = "str" /\ Len(x.v) > 0

\* devinfo['mount'] = mount, when mount is true
WithMount(info, mount) ==
    IF Truthy(mount) THEN ("mount" :> mount) @@ info ELSE info

LinuxDevnameKey(device) ==
    IF "DEVNAME" \in DOMAIN device.props THEN Str(device.props["DEVNAME"]) ELSE None

\* The body of the loop of linux.usbinfo() for one device.
LinuxRecord(device, mnt) ==
    WithMount(
        [bInterfaceNumber |-> DeviceGet(device, "ID_USB_INTERFACE_NUM"),
         iManufacturer |-> DeviceGet(device, "ID_VENDOR"),
         idVendor |-> DeviceGet(device, "ID_VENDOR_ID"),
         iProduct |-> DeviceGet(device, "ID_MODEL"),
         idProduct |-> DeviceGet(device, "ID_MODEL_ID"),
         iSerialNumber |-> DeviceGet(device, "ID_SERIAL_SHORT"),
         devname |-> DeviceGet(device, "DEVNAME")],
        MountOf(mnt, LinuxDevnameKey(device)))

----------------------------------------------------------------------------
(* usbinfo/darwin.py: _sanitize_xml *)

(* The output of ioreg is a byte string: a sequence of the integers 0..255.  *)
(* line.decode('utf-8') gives a unicode string: a sequence of code points.   *)

LF == 10                \* '\n'
ControlLimit == 32      \* if byte < 32

\* \s of a pattern compiled without re.UNICODE: [ \t\n\r\f\v]
WhiteSpace == {9, 10, 11, 12, 13, 32}

OpenTag == <<60, 115, 116, 114, 105, 110, 103, 62>>         \* <string>
CloseTag == <<60, 47, 115, 116, 114, 105, 110, 103, 62>>    \* </string>

RECURSIVE SplitLines(_)
\* data.split('\n'), for a byte string
SplitLines(bytes) ==
    LET ends == {i \in 1..Len(bytes) : bytes[i] = LF}
    IN IF ends = {} THEN <<bytes>>
       ELSE LET i == CHOOSE e \in ends : \A o \in ends : e <= o
            IN <<SubSeq(bytes, 1, i - 1)>>
                   \o SplitLines(SubSeq(bytes, i + 1, Len(bytes)))

RECURSIVE JoinLines(_)
\* '\n'.join(output)
JoinLines(lines) ==
    IF Len(lines) = 0 THEN << >>
    ELSE IF Len(lines) = 1 THEN lines[1]
    ELSE lines[1] \o <<LF>> \o JoinLines(Tail(lines))

\* The number of bytes of the UTF-8 sequence that a byte starts; 0 for a byte
\* that starts none
Utf8Length(b) ==
    IF b < 128 THEN 1
    ELSE IF b \in 194..223 THEN 2
    ELSE IF b \in 224..239 THEN 3
    ELSE IF b \in 240..244 THEN 4
    ELSE 0

RECURSIVE Utf8Decode(_)
\* bytes.decode('utf-8') of Python 2: [ok |-> FALSE] for UnicodeDecodeError.
\* A code point above 65535 is two code units on a narrow build, both above
\* 255 like the code point itself.
Utf8Decode(bytes) ==
    IF Len(bytes) = 0 THEN [ok |-> TRUE, v |-> << >>]
    ELSE LET b == bytes[1]
             n == Utf8Length(b)
         IN IF \/ n = 0
               \/ Len(bytes) < n
               \/ \E k \in 2..n : bytes[k] \notin 128..191
               \/ (b = 224 /\ bytes[2] < 160)
               \/ (b = 240 /\ bytes[2] < 144)
               \/ (b = 244 /\ bytes[2] > 143)
            THEN [ok |-> FALSE, v |-> << >>]
            ELSE LET cp == IF n = 1 THEN b
                           ELSE IF n = 2 THEN (b - 192) * 64 + (bytes[2] - 128)
                           ELSE IF n = 3
                           THEN (b - 224) * 4096 + (bytes[2] - 128) * 64
                                    + (bytes[3] - 128)
                           ELSE (b - 240) * 262144 + (bytes[2] - 128) * 4096
                                    + (bytes[3] - 128) * 64 + (bytes[4] - 128)
                     rest == Utf8Decode(SubSeq(bytes, n + 1, Len(bytes)))
                 IN [ok |-> rest.ok, v |-> IF rest.ok THEN <<cp>> \o rest.v ELSE << >>]

Utf8EncodeChar(cp) ==
    IF cp < 128 THEN <<cp>>
    ELSE IF cp < 2048 THEN <<192 + (cp \div 64), 128 + (cp % 64)>>
    ELSE IF cp < 65536
    THEN <<224 + (cp \div 4096), 128 + ((cp \div 64) % 64), 128 + (cp % 64)>>
    ELSE <<240 + (cp \div 262144), 128 + ((cp \div 4096) % 64),
           128 + ((cp \div 64) % 64), 128 + (cp % 64)>>

RECURSIVE Utf8Encode(_)
\* text.encode('utf-8')
Utf8Encode(text) ==
    IF Len(text) = 0 THEN << >>
    ELSE Utf8EncodeChar(text[1]) \o Utf8Encode(Tail(text))

\* The character of one hexadecimal digit, in upper case
HexUpper(d) == IF d < 10 THEN 48 + d ELSE 55 + d

RECURSIVE Fmt02X(_)
\* ''.join(['%02X' % byte for byte in byte_list]), the bytes being below 256
Fmt02X(byte_list) ==
    IF Len(byte_list) = 0 THEN << >>
    ELSE <<HexUpper(byte_list[1] \div 16), HexUpper(byte_list[1] % 16)>>
             \o Fmt02X(Tail(byte_list))

StartsAt(chunk, i, tag) ==
    /\ i + Len(tag) - 1 <= Len(chunk)
    /\ SubSeq(chunk, i, i + Len(tag) - 1) = tag

\* re.match(sanitize_pattern, chunk) on a chunk without '\n': << >> for no
\* match, or the three groups.  \s*? can only stop at the first character that
\* is no white space, and (.*?) at the first </string> after the tag.
SanitizeMatch(chunk) ==
    LET k == CHOOSE i \in 1..(Len(chunk) + 1) :
                 /\ \A j \in 1..(i - 1) : chunk[j] \in WhiteSpace
                 /\ i = Len(chunk) + 1 \/ chunk[i] \notin WhiteSpace
        from == k + Len(OpenTag)
        closes == {j \in from..Len(chunk) : StartsAt(chunk, j, CloseTag)}
    IN IF ~StartsAt(chunk, k, OpenTag) \/ closes = {} THEN << >>
       ELSE LET j == CHOOSE c \in closes : \A o \in closes : c <= o
            IN <<[start |-> SubSeq(chunk, 1, from - 1),
                  middle |-> SubSeq(chunk, from, j - 1),
                  end |-> SubSeq(chunk, j, Len(chunk))]>>

\* Mutant of IsControl: the digits count as control bytes too
IsControl_BelowLetters(byte) == byte < 2 * ControlLimit

\* if byte < 32
IsControl(byte) == byte < ControlLimit

\* needs_patch after the loop over byte_list
NeedsPatch(byte_list) == \E i \in 1..Len(byte_list) : IsControl(byte_list[i])

\* The body of the loop of _sanitize_xml for one line, under Python 2: the line
\* appended to output, or the exception raised.  bytearray() of a list raises
\* ValueError for an integer above 255.
SanitizeLine(line) ==
    LET chunk == Utf8Decode(line)
    IN IF ~chunk.ok THEN [outcome |-> "UnicodeDecodeError", v |-> << >>]
       ELSE LET match == SanitizeMatch(chunk.v)
            IN IF match = << >> THEN [outcome |-> "returned", v |-> line]
               ELSE IF \E i \in 1..Len(match[1].middle) : match[1].middle[i] > 255
               THEN [outcome |-> "ValueError", v |-> << >>]
               ELSE IF NeedsPatch(match[1].middle)
               THEN [outcome |-> "returned",
                     v |-> Utf8Encode(match[1].start \o Fmt02X(match[1].middle)
                                          \o match[1].end)]
               ELSE [outcome |-> "returned", v |-> line]

\* data.split('\n') of a byte string with a str separator raises TypeError
\* under Python 3, where subprocess.check_output returns bytes.
SplitError(py) ==
    IF py = 3 THEN "TypeError: a bytes-like object is required" ELSE "none"

\* _sanitize_xml(data): the text returned, or the first exception raised
_sanitize_xml(py, bytes) ==
    IF SplitError(py) # "none" THEN [outcome |-> SplitError(py), v |-> << >>]
    ELSE LET lines == SplitLines(bytes)
             outs == [i \in 1..Len(lines) |-> SanitizeLine(lines[i])]
             errs == [i \in 1..Len(lines) |-> IF outs[i].outcome = "returned"
                                              THEN "none" ELSE outs[i].outcome]
         IN IF \E i \in 1..Len(lines) : errs[i] # "none"
            THEN [outcome |-> errs[CHOOSE i \in 1..Len(lines) :
                                       /\ errs[i] # "none"
                                       /\ \A j \in 1..(i - 1) : errs[j] = "none"],
                  v |-> << >>]
            ELSE [outcome |-> "returned",
                  v |-> JoinLines([i \in 1..Len(lines) |-> outs[i].v])]

----------------------------------------------------------------------------
(* usbinfo/darwin.py: the registry tree and its searches *)

\* A node of the parsed registry dump: its properties and the list under
\* IORegistryEntryChildren (an absent list and an empty one read the same).
Node(props, children) == [props |-> props, children |-> children]

HasProp(node, key) == key \in DOMAIN node.props

\* node.get(key): <<value>>, or << >> for None
NodeGet(node, key) == IF HasProp(node, key) THEN <<node.props[key]>> ELSE << >>

\* dict.update(other)
DictUpdate(d, other) == other @@ d

RECURSIVE _usb_device(_)
RECURSIVE UsbDevicesOf(_)
\* _usb_device over a list of nodes, the results concatenated in list order
UsbDevicesOf(nodes) ==
    IF Len(nodes) = 0 THEN << >>
    ELSE _usb_device(Head(nodes)) \o UsbDevicesOf(Tail(nodes))

\* Mutant of _usb_device: the node after its descendants
_usb_device_PostOrder(node) ==
    UsbDevicesOf(node.children)
        \o (IF HasProp(node, "sessionID") THEN <<node>> ELSE << >>)

_usb_device(node) ==
    (IF HasProp(node, "sessionID") THEN <<node>> ELSE << >>)
        \o UsbDevicesOf(node.children)

\* _ioreg_usb_devices over the trees that ioreg returned
_ioreg_usb_devices(ioreg) == UsbDevicesOf(ioreg)

_serial_bsd_client(node) ==
    IF HasProp(node, "IODialinDevice")
    THEN ("devname" :> Str(node.props["IODialinDevice"]))
    ELSE EmptyMap

RECURSIVE FirstBsdName(_)
FirstBsdName(children) ==
    IF Len(children) = 0 THEN EmptyMap
    ELSE IF HasProp(Head(children), "BSD Name")
         THEN ("devname" :> Str(Dev \o Head(children).props["BSD Name"]))
         ELSE FirstBsdName(Tail(children))

_disk_partition(node) == FirstBsdName(node.children)

\* The handlers of ioclass_handlers that apply to a child, applied to it.
IoclassInfo(child) ==
    IF NodeGet(child, "IOObjectClass") = <<"IOSerialBSDClient">>
    THEN _serial_bsd_client(child)
    ELSE IF NodeGet(child, "IOObjectClass") = <<"IOFDiskPartitionScheme">>
         THEN _disk_partition(child)
         ELSE EmptyMap

RECURSIVE _extra_if_info(_)
RECURSIVE ExtraInfoLoop(_, _)
\* The loop of _extra_if_info over the children left, info being the
\* dictionary so far.
ExtraInfoLoop(children, info) ==
    IF Len(children) = 0 THEN info
    ELSE ExtraInfoLoop(
            Tail(children),
            DictUpdate(DictUpdate(info, IoclassInfo(Head(children))),
                       _extra_if_info(Head(children))))

_extra_if_info(node) == ExtraInfoLoop(node.children, EmptyMap)

RECURSIVE _match_node_property(_, _, _)
RECURSIVE MatchLoop(_, _, _, _)
\* The loop of _match_node_property over the children left: <<node>> for the
\* node returned, << >> for None.
MatchLoop(node, children, key, value) ==
    IF Len(children) = 0 THEN << >>
    ELSE IF NodeGet(node, key) = value THEN <<node>>
    ELSE LET retval == _match_node_property(Head(children), key, value)
         IN IF retval # << >> THEN retval
            ELSE MatchLoop(node, Tail(children), key, value)

_match_node_property(node, key, value) ==
    MatchLoop(node, node.children, key, value)

----------------------------------------------------------------------------
(* usbinfo/darwin.py: the records of usbinfo() *)

\* The version from which devname lives in the trees under XHC1 and EHC1.
ElCapitanMinor == 11

\* try: node['idVendor']; node['idProduct'] except KeyError: continue
IsUsbDeviceNode(node) == HasProp(node, "idVendor") /\ HasProp(node, "idProduct")

\* node.get(key, u'').encode('ascii', 'ignore')
NodeText(node, key) == Str(AsciiIgnore(DictGet(node.props, key, EmptyStr)))

\* devinfo of a device node that has idVendor and idProduct
DeviceInfo(node) ==
    [idVendor |-> Str(Fmt04x(node.props["idVendor"])),
     idProduct |-> Str(Fmt04x(node.props["idProduct"])),
     iManufacturer |-> NodeText(node, "USB Vendor Name"),
     iProduct |-> NodeText(node, "USB Product Name"),
     iSerialNumber |-> NodeText(node, "USB Serial Number"),
     bNumEndpoints |-> Str(<<"1">>),
     bInterfaceNumber |-> Str(EmptyStr),
     devname |-> Str(EmptyStr)]

IsInterfaceNode(child) ==
    \/ NodeGet(child, "IOUserClientClass") = <<"IOUSBInterfaceUserClientV3">>
    \/ NodeGet(child, "IOObjectClass") = <<"IOUSBInterface">>

\* child['bInterfaceNumber'] and child['bNumEndpoints'] raise no KeyError
HasInterfaceNumbers(child) ==
    HasProp(child, "bInterfaceNumber") /\ HasProp(child, "bNumEndpoints")

\* Mutant of InterfaceOverlay: the overlay also resets the serial number
InterfaceOverlay_NoSerial(info, child) ==
    [info EXCEPT !.bInterfaceNumber = Str(PyStr(child.props["bInterfaceNumber"])),
                 !.bNumEndpoints = Str(PyStr(child.props["bNumEndpoints"])),
                 !.iSerialNumber = Str(EmptyStr)]

\* ifinfo = copy.copy(devinfo); ifinfo.update({...})
InterfaceOverlay(info, child) ==
    [info EXCEPT !.bInterfaceNumber = Str(PyStr(child.props["bInterfaceNumber"])),
                 !.bNumEndpoints = Str(PyStr(child.props["bNumEndpoints"]))]

RECURSIVE ElCapitanExtras(_, _)
\* for extra_node in _el_capitan_extras: the extra-info of the first node
\* that _match_node_property finds, or nothing
ElCapitanExtras(extra_nodes, child) ==
    IF Len(extra_nodes) = 0 THEN EmptyMap
    ELSE LET _node == _match_node_property(
                          Head(extra_nodes),
                          "AppleUSBAlternateServiceRegistryID",
                          NodeGet(child, "IORegistryEntryID"))
         IN IF _node # << >> THEN _extra_if_info(_node[1])
            ELSE ElCapitanExtras(Tail(extra_nodes), child)

\* Mutant of AttachMount: a join that looks at the kind of interface and
\* leaves the serial devices out
AttachMount_BlockOnly(info, mnt) ==
    IF "devname" \in DOMAIN info /\ info["devname"] # Str(DevT)
    THEN WithMount(info, MountOf(mnt, info["devname"]))
    ELSE info

\* if 'devname' in ifinfo: mount = _mounts.get(ifinfo['devname']) ...
AttachMount(info, mnt) ==
    IF "devname" \in DOMAIN info
    THEN WithMount(info, MountOf(mnt, info["devname"]))
    ELSE info

\* ifinfo of an interface child that has both numbers
InterfaceInfo(info, child, minor, extra_nodes, mnt) ==
    LET overlaid == InterfaceOverlay(info, child)
        correlated == IF minor >= ElCapitanMinor
                      THEN DictUpdate(overlaid, ElCapitanExtras(extra_nodes, child))
                      ELSE overlaid
        merged == DictUpdate(correlated, _extra_if_info(child))
    IN AttachMount(merged, mnt)

----------------------------------------------------------------------------
(* usbinfo/__init__.py *)

\* Mutant of BoundBackend: an else branch that binds the Linux backend
BoundBackend_Fallback(p) == IF p = "Darwin" THEN "darwin" ELSE "linux"

\* if PLATFORM == 'Linux': ... elif PLATFORM == 'Darwin': ... (no else)
BoundBackend(p) ==
    IF p = "Linux" THEN "linux"
    ELSE IF p = "Darwin" THEN "darwin"
    ELSE "unbound"

\* The keyword parameters that usbinfo() of a backend declares:
\* def usbinfo(): in linux.py and in darwin.py.
BackendKeywords(b) == {}

\* The keywords that endpoints() passes: __usbinfo(decode_model=True)
EndpointsKeywords == {"decode_model"}

\* cast_int(key) of _usbinfo_dict_to_endpoint
cast_int(ep_dict, key) ==
    LET value == DictGet(ep_dict, key, Str(EmptyStr))
    IN IF IsDigit(value.v) THEN IntV(HexValue(value.v)) ELSE None

\* int(ep_dict.get(key), 16) raises TypeError for None and ValueError for a
\* string that is no hexadecimal number
IntBase16Error(ep_dict, key) ==
    IF key \notin DOMAIN ep_dict THEN "TypeError"
    ELSE IF ~IsHexString(ep_dict[key].v) THEN "ValueError"
    ELSE "none"

NormalizeError(ep_dict) ==
    IF IntBase16Error(ep_dict, "idProduct") # "none"
    THEN IntBase16Error(ep_dict, "idProduct")
    ELSE IntBase16Error(ep_dict, "idVendor")

\* _usbinfo_dict_to_endpoint, for a dictionary on which it raises nothing
_usbinfo_dict_to_endpoint(ep_dict) ==
    [devname |-> DictGet(ep_dict, "devname", None),
     id_product |-> IntV(HexValue(ep_dict["idProduct"].v)),
     id_vendor |-> IntV(HexValue(ep_dict["idVendor"].v)),
     interface |-> cast_int(ep_dict, "bInterfaceNumber"),
     mount |-> DictGet(ep_dict, "mount", None),
     num_endpoints |-> cast_int(ep_dict, "bNumEndpoints"),
     product |-> DictGet(ep_dict, "iProduct", None),
     serial_number |-> DictGet(ep_dict, "iSerialNumber", None),
     vendor |-> DictGet(ep_dict, "iManufacturer", None)]

EndpointFields == {"devname", "id_product", "id_vendor", "interface", "mount",
                   "num_endpoints", "product", "serial_number", "vendor"}

\* isinstance(exp_value, (int, str)) or exp_value is None
LegalFilterValue(x) == x.t \in {"int", "str", "None"}

RECURSIVE key_value_match(_, _)
\* key_value_match over the filters left, a sequence of <<key, value>> in the
\* order of filters.items(): "True", "False" or the exception raised
key_value_match(endpoint, fs) ==
    IF Len(fs) = 0 THEN "True"
    ELSE LET key == Head(fs)[1]
             exp_value == Head(fs)[2]
         IN IF ~LegalFilterValue(exp_value) THEN "TypeError: Illegal filter"
            ELSE IF key \notin EndpointFields THEN "AttributeError"
            ELSE IF ~PyEq(endpoint[key], exp_value) THEN "False"
            ELSE key_value_match(endpoint, Tail(fs))

RECURSIVE FirstError(_)
\* The first entry of a sequence of outcomes that is an exception
FirstError(outs) ==
    IF Len(outs) = 0 THEN "none"
    ELSE IF Head(outs) \notin {"none", "True", "False"} THEN Head(outs)
    ELSE FirstError(Tail(outs))

\* endpoints(**filters) from the list the backend returned: the two list
\* comprehensions, the first exception raised ending the call
EndpointsOf(raw, fs) ==
    LET errs == [i \in 1..Len(raw) |-> NormalizeError(raw[i])]
    IN IF FirstError(errs) # "none"
       THEN [outcome |-> FirstError(errs), value |-> << >>]
       ELSE LET eps == [i \in 1..Len(raw) |-> _usbinfo_dict_to_endpoint(raw[i])]
                matches == [i \in 1..Len(raw) |-> key_value_match(eps[i], fs)]
                Matching(i) == matches[i] = "True"
                idx == SelectSeq([i \in 1..Len(raw) |-> i], Matching)
            IN IF FirstError(matches) # "none"
               THEN [outcome |-> FirstError(matches), value |-> << >>]
               ELSE [outcome |-> "returned",
                     value |-> [k \in 1..Len(idx) |-> eps[idx[k]]]]

----------------------------------------------------------------------------
(* The platform states the queries are run in *)

MaxListing == 3     \* Linux: the longest listing of the device manager
MaxRoots == 2       \* Darwin: the most nodes under AppleUSBXHCI

RECURSIVE SeqsUpTo(_, _)
\* The sequences over S of length 0..n
SeqsUpTo(S, n) ==
    IF n = 0 THEN {<< >>}
    ELSE LET shorter == SeqsUpTo(S, n - 1)
         IN shorter \cup { Append(q, x) : q \in {r \in shorter : Len(r) = n - 1}, x \in S }

Leaf(props) == Node(props, << >>)

\* An IOSerialBSDClient with its dial-in device
SerialClient == Leaf(("IOObjectClass" :> "IOSerialBSDClient") @@ ("IODialinDevice" :> DevT))

\* An IOFDiskPartitionScheme whose second child carries the BSD name
DiskScheme(bsd) ==
    Node(("IOObjectClass" :> "IOFDiskPartitionScheme"),
         <<Leaf(("IOObjectClass" :> "IOMedia")), Leaf(("BSD Name" :> bsd))>>)

\* A driver node between an interface and its clients
Driver(children) == Node(("IOObjectClass" :> "IOUSBMassStorageDriver"), children)

IfClass == ("IOObjectClass" :> "IOUSBInterface")
IfClassV3 == ("IOObjectClass" :> "AppleUSBInterface")
                 @@ ("IOUserClientClass" :> "IOUSBInterfaceUserClientV3")
IfNumbers(n, e) == ("bInterfaceNumber" :> n) @@ ("bNumEndpoints" :> e)
EntryID(id) == ("IORegistryEntryID" :> id)

\* Interface nodes: serial, disk, without clients, with both kinds of client,
\* without a registry identifier, and without one of the two numbers
IfSerial == Node(IfClassV3 @@ IfNumbers(0, 2) @@ EntryID(7), <<SerialClient>>)
IfDisk == Node(IfClass @@ IfNumbers(10, 1) @@ EntryID(8), <<Driver(<<DiskScheme(<<"a">>)>>)>>)
IfBare == Node(IfClass @@ IfNumbers(0, 2) @@ EntryID(7), << >>)
IfBoth == Node(IfClassV3 @@ IfNumbers(1, 3) @@ EntryID(9),
               <<Driver(<<DiskScheme(<<"b">>)>>), SerialClient>>)
IfNoID == Node(IfClass @@ IfNumbers(2, 0), << >>)
IfNoNumber == Node(IfClass @@ ("bNumEndpoints" :> 2) @@ EntryID(7), <<SerialClient>>)
IfNoEndpoints == Node(IfClassV3 @@ ("bInterfaceNumber" :> 1) @@ EntryID(8), << >>)
NotInterface == Node(("IOObjectClass" :> "IOUSBHostHIDDevice") @@ IfNumbers(5, 5),
                     <<SerialClient>>)

Session == ("sessionID" :> 1)
Identity(vid, pid) == ("idVendor" :> vid) @@ ("idProduct" :> pid)
Names == ("USB Vendor Name" :> <<"A", "k">>) @@ ("USB Product Name" :> <<"H">>)
             @@ ("USB Serial Number" :> <<"s", "1">>)
NamesNotAscii == ("USB Vendor Name" :> <<"é", "k">>) @@ ("USB Product Name" :> <<"é">>)

VidApple == HexValue(<<"5", "a", "c">>)
PidHub == HexValue(<<"8", "0", "0", "7">>)
MaxId16 == HexValue(<<"f", "f", "f", "f">>)   \* the largest 16-bit identifier

DevSerial == Node(Session @@ Identity(1, MaxId16) @@ Names, <<IfSerial>>)

\* The device nodes, and the nodes that hold them, that a dump is made of
DeviceNodes ==
    { Leaf(Session @@ Identity(VidApple, PidHub) @@ Names),
      Node(Session @@ ("idProduct" :> PidHub) @@ Names, <<IfSerial>>),
      Node(Session @@ ("idVendor" :> VidApple), <<IfDisk>>),
      DevSerial,
      Node(Session @@ Identity(0, 10) @@ NamesNotAscii, <<IfDisk>>),
      Node(Session @@ Identity(VidApple, PidHub) @@ Names, <<IfBare, IfBoth>>),
      Node(Session @@ Identity(VidApple, 4660), <<NotInterface, IfNoID>>),
      Node(Session @@ Identity(VidApple, PidHub) @@ Names, <<IfNoNumber>>),
      Node(Session @@ Identity(VidApple, PidHub), <<IfBare, IfNoEndpoints>>),
      Node(Session @@ Identity(VidApple, PidHub) @@ Names, <<IfBare, DevSerial, IfDisk>>),
      Node(("IOObjectClass" :> "AppleUSBXHCI"),
           <<Leaf(Session @@ Identity(VidApple, PidHub) @@ NamesNotAscii)>>) }

\* The trees under XHC1 and EHC1: nodes that name the interface they belong
\* to in AppleUSBAlternateServiceRegistryID
AltID(id) == ("AppleUSBAlternateServiceRegistryID" :> id)
ExtraSerial == Node(Session, <<Node(AltID(7), <<SerialClient>>)>>)
ExtraDisk == Node(Session, <<Leaf(AltID(9)), Node(AltID(7), <<Driver(<<DiskScheme(<<"b">>)>>)>>)>>)
ExtraOther == Node(Session @@ AltID(3), <<Node(AltID(8), <<DiskScheme(<<"a">>)>>)>>)

ExtraTrees ==
    { [xhc1 |-> << >>, ehc1 |-> << >>],
      [xhc1 |-> <<ExtraSerial>>, ehc1 |-> << >>],
      [xhc1 |-> <<ExtraOther>>, ehc1 |-> <<ExtraDisk>>],
      [xhc1 |-> <<ExtraDisk, ExtraOther>>, ehc1 |-> <<ExtraSerial>>] }

Registries ==
    { [xhci |-> x, ehci |-> e] :
        x \in SeqsUpTo(DeviceNodes, MaxRoots), e \in {<< >>, <<DevSerial>>} }

Platforms == {"Linux", "Darwin", "Windows"}

\* setup.py declares Python 2.6, 2.7, 3.4 and 3.5
Pythons == {2, 3}

\* endpoints(**filters): the filters in the order of filters.items()
FilterSets ==
    { << >>,
      << <<"id_vendor", IntV(VidApple)>> >>,
      << <<"devname", None>> >>,
      << <<"vendor", Str(<<"A", "k">>)>>, <<"interface", IntV(0)>> >>,
      << <<"id_vendor", ListV>> >>,
      << <<"id_vendor", IntV(1)>>, <<"mount", ListV>> >> }

----------------------------------------------------------------------------
(* The program *)

NoTrees == [xhci |-> << >>, ehci |-> << >>]
NoExtras == [xhc1 |-> << >>, ehc1 |-> << >>]

Init ==
    /\ platform \in Platforms
    /\ python \in Pythons
    /\ data = << >>
    /\ sanitized = << >>
    /\ mounts \in MountTables
    /\ listing \in IF platform = "Linux" THEN SeqsUpTo(LinuxItems, MaxListing) ELSE {<< >>}
    /\ registry \in IF platform = "Darwin" THEN Registries ELSE {NoTrees}
    /\ os_minor \in IF platform = "Darwin" THEN {ElCapitanMinor - 1, ElCapitanMinor} ELSE {0}
    /\ extras \in IF platform = "Darwin" /\ os_minor >= ElCapitanMinor
                  THEN ExtraTrees ELSE {NoExtras}
    /\ backend = "unbound"
    /\ pc = "unloaded"
    /\ call = "none"
    /\ filters = << >>
    /\ devices = << >>
    /\ extra_devs = << >>
    /\ dev_i = 0
    /\ child_i = 0
    /\ devinfo = EmptyMap
    /\ info_list = << >>
    /\ io = << >>
    /\ outcome = "none"
    /\ result = << >>

env == <<platform, python, os_minor, listing, registry, extras, mounts, data,
        sanitized>>
locals == <<devices, extra_devs, dev_i, child_i, devinfo, info_list>>

\* import usbinfo: the module body binds __usbinfo on Linux and on Darwin
\* and binds nothing elsewhere; it raises nothing on any platform.
ImportModule ==
    /\ pc = "unloaded"
    /\ backend' = BoundBackend(platform)
    /\ pc' = "ready"
    /\ UNCHANGED <<env, locals, call, filters, io, outcome, result>>

\* The first ioreg that darwin.usbinfo() runs
FirstIoreg(minor) ==
    IF minor >= ElCapitanMinor THEN "ioreg XHC1" ELSE "ioreg AppleUSBXHCI"

\* The call __usbinfo(...) with the given keywords, up to the first
\* statement of the backend: NameError when the name is not bound, TypeError
\* (unexpected keyword argument) when the backend declares no such keyword.
\* On Darwin the dumps are sanitized and parsed before the loop: under
\* Python 3 the first _sanitize_xml raises, whatever the dump; under Python 2
\* registry and extras are what the dumps were parsed to.
EnterBackend(keywords) ==
    IF backend = "unbound"
    THEN /\ pc' = "done"
         /\ outcome' = "NameError"
         /\ UNCHANGED <<locals, io>>
    ELSE IF ~(keywords \subseteq BackendKeywords(backend))
    THEN /\ pc' = "done"
         /\ outcome' = "TypeError: unexpected keyword argument"
         /\ UNCHANGED <<locals, io>>
    ELSE IF backend = "linux"
    THEN \* _mounts = get_mounts(); context.list_devices()...
         /\ pc' = "linux_loop"
         /\ io' = <<"get_mounts", "list_devices">>
         /\ info_list' = << >>
         /\ dev_i' = 1
         /\ UNCHANGED <<devices, extra_devs, child_i, devinfo, outcome>>
    ELSE IF SplitError(python) # "none"
    THEN \* _mounts = get_mounts(); _ioreg(...): _sanitize_xml(output) raises
         /\ pc' = "done"
         /\ io' = <<"get_mounts", FirstIoreg(os_minor)>>
         /\ outcome' = SplitError(python)
         /\ UNCHANGED locals
    ELSE \* _mounts = get_mounts(); the extras; _ioreg_usb_devices()
         /\ pc' = "darwin_loop"
         /\ io' = <<"get_mounts">>
                  \o (IF os_minor >= ElCapitanMinor
                      THEN <<"ioreg XHC1", "ioreg EHC1">> ELSE << >>)
                  \o <<"ioreg AppleUSBXHCI", "ioreg AppleUSBEHCI">>
         /\ extra_devs' = IF os_minor >= ElCapitanMinor
                          THEN _ioreg_usb_devices(extras.xhc1)
                                   \o _ioreg_usb_devices(extras.ehc1)
                          ELSE << >>
         /\ devices' = _ioreg_usb_devices(registry.xhci \o registry.ehci)
         /\ info_list' = << >>
         /\ dev_i' = 1
         /\ child_i' = 0
         /\ UNCHANGED <<devinfo, outcome>>

\* usbinfo(): return __usbinfo()
CallUsbinfo ==
    /\ pc = "ready"
    /\ call' = "usbinfo"
    /\ EnterBackend({})
    /\ UNCHANGED <<env, backend, filters, result>>

\* endpoints(**filters): ... in __usbinfo(decode_model=True)
CallEndpoints ==
    /\ pc = "ready"
    /\ \E fs \in FilterSets : filters' = fs
    /\ call' = "endpoints"
    /\ EnterBackend(EndpointsKeywords)
    /\ UNCHANGED <<env, backend, result>>

\* The backend returns info_list: usbinfo() returns it as it is,
\* endpoints() normalizes and filters it.
BackendReturn ==
    /\ pc' = "done"
    /\ IF call = "usbinfo"
       THEN /\ outcome' = "returned"
            /\ result' = info_list
       ELSE /\ outcome' = EndpointsOf(info_list, filters).outcome
            /\ result' = EndpointsOf(info_list, filters).value
    /\ UNCHANGED <<env, backend, call, filters, locals, io>>

(* linux.usbinfo(): one turn of the while loop per action *)

\* Mutant of LinuxSkip: DeviceNotFoundError ends the loop
LinuxSkip_Break ==
    /\ pc = "linux_loop"
    /\ dev_i <= Len(listing)
    /\ ~listing[dev_i].ok
    /\ BackendReturn

\* next(device_it) raises DeviceNotFoundError: continue
LinuxSkip ==
    /\ pc = "linux_loop"
    /\ dev_i <= Len(listing)
    /\ ~listing[dev_i].ok
    /\ dev_i' = dev_i + 1
    /\ UNCHANGED <<env, backend, pc, call, filters, devices, extra_devs, child_i,
                   devinfo, info_list, io, outcome, result>>

\* next(device_it) yields a device: its record is appended
LinuxAppend ==
    /\ pc = "linux_loop"
    /\ dev_i <= Len(listing)
    /\ listing[dev_i].ok
    /\ info_list' = Append(info_list, LinuxRecord(listing[dev_i], get_mounts))
    /\ dev_i' = dev_i + 1
    /\ UNCHANGED <<env, backend, pc, call, filters, devices, extra_devs, child_i,
                   devinfo, io, outcome, result>>

\* next(device_it) raises StopIteration: break; return info_list
LinuxStop ==
    /\ pc = "linux_loop"
    /\ dev_i > Len(listing)
    /\ BackendReturn

(* darwin.usbinfo(): one device-level or interface-level step per action *)

CurrentNode == devices[dev_i]
CurrentChild == CurrentNode.children[child_i]

\* A device node without idVendor or idProduct: continue
DarwinSkipDevice ==
    /\ pc = "darwin_loop"
    /\ child_i = 0
    /\ dev_i <= Len(devices)
    /\ ~IsUsbDeviceNode(CurrentNode)
    /\ dev_i' = dev_i + 1
    /\ UNCHANGED <<env, backend, pc, call, filters, devices, extra_devs, child_i,
                   devinfo, info_list, io, outcome, result>>

\* info_list.append(devinfo)
DarwinDeviceRecord ==
    /\ pc = "darwin_loop"
    /\ child_i = 0
    /\ dev_i <= Len(devices)
    /\ IsUsbDeviceNode(CurrentNode)
    /\ devinfo' = DeviceInfo(CurrentNode)
    /\ info_list' = Append(info_list, DeviceInfo(CurrentNode))
    /\ child_i' = 1
    /\ UNCHANGED <<env, backend, pc, call, filters, devices, extra_devs, dev_i,
                   io, outcome, result>>

\* A child that is no interface node is passed over
DarwinOtherChild ==
    /\ pc = "darwin_loop"
    /\ child_i >= 1
    /\ child_i <= Len(CurrentNode.children)
    /\ ~IsInterfaceNode(CurrentChild)
    /\ child_i' = child_i + 1
    /\ UNCHANGED <<env, backend, pc, call, filters, devices, extra_devs, dev_i,
                   devinfo, info_list, io, outcome, result>>

\* info_list.append(ifinfo)
DarwinInterfaceRecord ==
    /\ pc = "darwin_loop"
    /\ child_i >= 1
    /\ child_i <= Len(CurrentNode.children)
    /\ IsInterfaceNode(CurrentChild)
    /\ HasInterfaceNumbers(CurrentChild)
    /\ info_list' = Append(info_list,
                           InterfaceInfo(devinfo, CurrentChild, os_minor,
                                         extra_devs, get_mounts))
    /\ child_i' = child_i + 1
    /\ UNCHANGED <<env, backend, pc, call, filters, devices, extra_devs, dev_i,
                   devinfo, io, outcome, result>>

\* child['bInterfaceNumber'] or child['bNumEndpoints'] raises KeyError, which
\* nothing catches: the query ends with it
DarwinInterfaceKeyError ==
    /\ pc = "darwin_loop"
    /\ child_i >= 1
    /\ child_i <= Len(CurrentNode.children)
    /\ IsInterfaceNode(CurrentChild)
    /\ ~HasInterfaceNumbers(CurrentChild)
    /\ pc' = "done"
    /\ outcome' = "KeyError"
    /\ UNCHANGED <<env, backend, call, filters, locals, io, result>>

\* The children of the device node are exhausted: the next device node
DarwinNextDevice ==
    /\ pc = "darwin_loop"
    /\ child_i >= 1
    /\ child_i > Len(CurrentNode.children)
    /\ dev_i' = dev_i + 1
    /\ child_i' = 0
    /\ UNCHANGED <<env, backend, pc, call, filters, devices, extra_devs, devinfo,
                   info_list, io, outcome, result>>

\* The device nodes are exhausted: return info_list
DarwinStop ==
    /\ pc = "darwin_loop"
    /\ child_i = 0
    /\ dev_i > Len(devices)
    /\ BackendReturn

Next ==
    \/ ImportModule
    \/ CallUsbinfo
    \/ CallEndpoints
    \/ LinuxSkip
    \/ LinuxAppend
    \/ LinuxStop
    \/ DarwinSkipDevice
    \/ DarwinDeviceRecord
    \/ DarwinOtherChild
    \/ DarwinInterfaceRecord
    \/ DarwinInterfaceKeyError
    \/ DarwinNextDevice
    \/ DarwinStop

Spec == Init /\ [][Next]_vars

----------------------------------------------------------------------------
(* The value of a query as a function of the platform state *)

RECURSIVE LinuxUsbinfo(_, _)
\* linux.usbinfo() on a listing: the records of the devices yielded, in order
LinuxUsbinfo(items, mnt) ==
    IF Len(items) = 0 THEN << >>
    ELSE (IF Head(items).ok THEN <<LinuxRecord(Head(items), mnt)>> ELSE << >>)
             \o LinuxUsbinfo(Tail(items), mnt)

RECURSIVE DarwinInterfaces(_, _, _, _, _)
\* The loop over the children of a device node: the interface records, and
\* whether a child raised KeyError
DarwinInterfaces(info, children, minor, extra_nodes, mnt) ==
    IF Len(children) = 0 THEN [outcome |-> "returned", value |-> << >>]
    ELSE IF ~IsInterfaceNode(Head(children))
    THEN DarwinInterfaces(info, Tail(children), minor, extra_nodes, mnt)
    ELSE IF ~HasInterfaceNumbers(Head(children))
    THEN [outcome |-> "KeyError", value |-> << >>]
    ELSE LET rest == DarwinInterfaces(info, Tail(children), minor, extra_nodes, mnt)
         IN [outcome |-> rest.outcome,
             value |-> <<InterfaceInfo(info, Head(children), minor, extra_nodes, mnt)>>
                           \o rest.value]

RECURSIVE DarwinUsbinfo(_, _, _, _)
\* darwin.usbinfo() on the device nodes that _ioreg_usb_devices() returned
DarwinUsbinfo(devs, minor, extra_nodes, mnt) ==
    IF Len(devs) = 0 THEN [outcome |-> "returned", value |-> << >>]
    ELSE IF ~IsUsbDeviceNode(Head(devs))
    THEN DarwinUsbinfo(Tail(devs), minor, extra_nodes, mnt)
    ELSE LET info == DeviceInfo(Head(devs))
             ifs == DarwinInterfaces(info, Head(devs).children, minor, extra_nodes, mnt)
             rest == DarwinUsbinfo(Tail(devs), minor, extra_nodes, mnt)
         IN IF ifs.outcome # "returned" THEN [outcome |-> ifs.outcome, value |-> << >>]
            ELSE IF rest.outcome # "returned" THEN rest
            ELSE [outcome |-> "returned", value |-> <<info>> \o ifs.value \o rest.value]

\* usbinfo() in the platform state of the model
UsbinfoValue ==
    IF backend = "linux"
    THEN [outcome |-> "returned", value |-> LinuxUsbinfo(listing, get_mounts)]
    ELSE IF backend = "darwin" /\ SplitError(python) # "none"
    THEN [outcome |-> SplitError(python), value |-> << >>]
    ELSE IF backend = "darwin"
    THEN DarwinUsbinfo(_ioreg_usb_devices(registry.xhci \o registry.ehci), os_minor,
                       IF os_minor >= ElCapitanMinor
                       THEN _ioreg_usb_devices(extras.xhc1) \o _ioreg_usb_devices(extras.ehc1)
                       ELSE << >>,
                       get_mounts)
    ELSE [outcome |-> "NameError", value |-> << >>]

\* The stepwise backends compute the value above.
StepwiseAgrees ==
    (pc = "done" /\ call = "usbinfo") =>
        (outcome = UsbinfoValue.outcome /\ result = UsbinfoValue.value)

----------------------------------------------------------------------------
(* Claims *)

HexDigitSet == {HexDigits[k] : k \in 1..16}
IsHex4(s) == Len(s) = 4 /\ \A i \in 1..4 : s[i] \in HexDigitSet

NumInterfaceChildren(node) ==
    Cardinality({k \in 1..Len(node.children) : IsInterfaceNode(node.children[k])})

RECURSIVE RecordCount(_)
\* The number of records that a list of device nodes stands for, a node
\* without idVendor or idProduct standing for none
RecordCount(devs) ==
    IF Len(devs) = 0 THEN 0
    ELSE (IF HasProp(Head(devs), "idVendor") /\ HasProp(Head(devs), "idProduct")
          THEN 1 + NumInterfaceChildren(Head(devs)) ELSE 0)
             + RecordCount(Tail(devs))

\* C1: on Darwin every record has an idVendor and an idProduct of exactly 4
\* hexadecimal digits, and a device node without idVendor or idProduct
\* contributes no record, device-level or interface-level: between two
\* device nodes, and in the list returned, there are as many records as the
\* device nodes that have both identifiers and their interface children
\* account for.
C1_FourHexDigitIds ==
    platform = "Darwin" =>
        /\ \A i \in 1..Len(info_list) :
               /\ IsHex4(info_list[i]["idVendor"].v)
               /\ IsHex4(info_list[i]["idProduct"].v)
        /\ (pc = "darwin_loop" /\ child_i = 0) =>
               Len(info_list) = RecordCount(SubSeq(devices, 1, dev_i - 1))
        /\ (pc = "done" /\ call = "usbinfo" /\ outcome = "returned") =>
               (result = info_list /\ Len(result) = RecordCount(devices))

\* C1 witness: a query returned records although a device node without an
\* identifier, with an interface child, was in the dump; one identifier
\* needed padding.
C1_Witness ==
    /\ platform = "Darwin" /\ pc = "done" /\ call = "usbinfo" /\ outcome = "returned"
    /\ \E k \in 1..Len(devices) :
           /\ ~HasProp(devices[k], "idVendor") \/ ~HasProp(devices[k], "idProduct")
           /\ NumInterfaceChildren(devices[k]) > 0
    /\ \E i \in 1..Len(result) : result[i]["idProduct"].v = <<"0", "0", "0", "a">>

\* C2: on both platforms a record carries a mount entry exactly when it
\* carries a devname that is a key of the mount mapping of the query, and the
\* entry is the mapping's value for that path, whatever the kind of device.
C2_MountJoin ==
    \A i \in 1..Len(info_list) :
        LET r == info_list[i]
        IN /\ ("mount" \in DOMAIN r) <=>
                  ("devname" \in DOMAIN r /\ r["devname"].v \in DOMAIN mounts)
           /\ ("mount" \in DOMAIN r) => r["mount"] = Str(mounts[r["devname"].v])

\* C2 witness: a query on Darwin returned the record of a serial interface
\* with the mount of its path, and a record whose path is not mounted
\* without any.
C2_Witness ==
    /\ platform = "Darwin" /\ pc = "done" /\ outcome = "returned"
    /\ \E i \in 1..Len(result) :
           result[i]["devname"] = Str(DevT) /\ "mount" \in DOMAIN result[i]
    /\ \E i \in 1..Len(result) :
           result[i]["devname"] = Str(DevB) /\ "mount" \notin DOMAIN result[i]

IsRetrieved(item) == item.ok

\* C3: on Linux the loop ends after at most one turn per item and the end of
\* the listing (every turn moves the iterator on or returns), the records
\* built so far are those of the items retrieved so far, and the list
\* returned holds the record of every item retrieved, in listing order, and
\* of no other.
C3_SkipsAndContinues ==
    /\ [](platform = "Linux" /\ call = "usbinfo" =>
            /\ pc = "linux_loop" =>
                   /\ dev_i \in 1..(Len(listing) + 1)
                   /\ LET got == SelectSeq(SubSeq(listing, 1, dev_i - 1), IsRetrieved)
                      IN info_list = [k \in 1..Len(got) |-> LinuxRecord(got[k], mounts)]
            /\ pc = "done" =>
                   /\ outcome = "returned"
                   /\ LET got == SelectSeq(listing, IsRetrieved)
                      IN result = [k \in 1..Len(got) |-> LinuxRecord(got[k], mounts)])
    /\ [][pc = "linux_loop" => (dev_i' = dev_i + 1 \/ pc' = "done")]_vars

\* C3 witness: a listing whose second item failed and whose third did not
\* has been gone through, and the third item's record is the second returned.
C3_Witness ==
    /\ platform = "Linux" /\ call = "usbinfo" /\ pc = "done"
    /\ Len(listing) = 3
    /\ listing[1].ok /\ ~listing[2].ok /\ listing[3].ok
    /\ Len(result) = 2
    /\ result[2] = LinuxRecord(listing[3], mounts)

LegalFilters(fs) == \A k \in 1..Len(fs) : LegalFilterValue(fs[k][2])

\* An Endpoint has, for every filter, the filter's value in the filter's field.
Satisfies(ep, fs) == \A k \in 1..Len(fs) : PyEq(ep[fs[k][1]], fs[k][2])

SatisfiesFilters(ep) == Satisfies(ep, filters)

\* The Endpoint records of the raw records that usbinfo() returns in the
\* platform state of the model
NormalizedValue ==
    [i \in 1..Len(UsbinfoValue.value) |-> _usbinfo_dict_to_endpoint(UsbinfoValue.value[i])]

\* C4 (as claimed): endpoints(**filters) with legal filter values returns the
\* records of the unfiltered list that satisfy every filter, all of them and
\* in the same order.
C4_FilterIsSubsequence ==
    (/\ pc = "done" /\ call = "endpoints" /\ backend # "unbound"
     /\ LegalFilters(filters)
     /\ UsbinfoValue.outcome = "returned"
     /\ \A i \in 1..Len(UsbinfoValue.value) : NormalizeError(UsbinfoValue.value[i]) = "none")
        => /\ outcome = "returned"
           /\ result = SelectSeq(NormalizedValue, SatisfiesFilters)

\* C5 (as claimed): endpoints() without filters completes whenever usbinfo()
\* does in the same platform state, and returns the normalizer's value of
\* each raw record, in the same order.
C5_EndpointsIsNormalizedUsbinfo ==
    (/\ pc = "done" /\ call = "endpoints" /\ filters = << >>
     /\ UsbinfoValue.outcome = "returned")
        => /\ outcome = "returned"
           /\ result = NormalizedValue

\* C6 (as claimed): endpoints(**filters) with a filter value that is no
\* integer, string or None ends with the TypeError of the illegal filter,
\* and no platform I/O has happened by then.
C6_IllegalFilterRejectedFirst ==
    (pc = "done" /\ call = "endpoints" /\ backend # "unbound" /\ ~LegalFilters(filters))
        => (outcome = "TypeError: Illegal filter" /\ io = << >>)

RequiredKeys == {"idVendor", "idProduct", "iManufacturer", "iProduct",
                 "iSerialNumber", "bInterfaceNumber", "devname"}

\* The device-manager property behind each key of a Linux record
LinuxProperty ==
    [idVendor |-> "ID_VENDOR_ID", idProduct |-> "ID_MODEL_ID",
     iManufacturer |-> "ID_VENDOR", iProduct |-> "ID_MODEL",
     iSerialNumber |-> "ID_SERIAL_SHORT",
     bInterfaceNumber |-> "ID_USB_INTERFACE_NUM", devname |-> "DEVNAME"]

SharedFields == {"idVendor", "idProduct", "iManufacturer", "iProduct", "iSerialNumber"}

\* The number of interface children among the first n children of a node
InterfacesAmong(node, n) ==
    Cardinality({k \in 1..n : k <= Len(node.children) /\ IsInterfaceNode(node.children[k])})

\* C8: on Darwin, while the children of a device node are gone through, the
\* records appended for it are its device-level record followed by one
\* record per interface child handled, each with the device-level record's
\* idVendor, idProduct, iManufacturer, iProduct and iSerialNumber; and no
\* step of the query changes a record that is already in the list.
C8_InterfaceSharesIdentity ==
    /\ []((platform = "Darwin" /\ pc = "darwin_loop" /\ child_i >= 1) =>
            LET base == Len(info_list) - InterfacesAmong(CurrentNode, child_i - 1)
            IN /\ base >= 1
               /\ info_list[base] = DeviceInfo(CurrentNode)
               /\ \A j \in (base + 1)..Len(info_list) : \A f \in SharedFields :
                      info_list[j][f] = info_list[base][f])
    /\ [][pc = "darwin_loop" =>
            (/\ Len(info_list') >= Len(info_list)
             /\ \A i \in 1..Len(info_list) : info_list'[i] = info_list[i])]_vars

\* C8 witness: the record of interface 10 of a device has been appended with
\* a devname and a mount, after the device-level record with the same
\* manufacturer.
C8_Witness ==
    /\ platform = "Darwin" /\ pc = "darwin_loop" /\ child_i = 2
    /\ Len(info_list) >= 2
    /\ info_list[Len(info_list)]["bInterfaceNumber"] = Str(<<"1", "0">>)
    /\ info_list[Len(info_list)]["devname"] = Str(DevA)
    /\ "mount" \in DOMAIN info_list[Len(info_list)]
    /\ info_list[Len(info_list)]["iManufacturer"] = Str(<<"k">>)
    /\ info_list[Len(info_list) - 1]["iManufacturer"] = Str(<<"k">>)

Supported == {"Linux", "Darwin"}

\* C10 (as claimed): on a platform that is neither Linux nor Darwin the
\* initialization of the module fails, so that no query is ever invoked.
C10_InitializationFails ==
    platform \notin Supported => (pc = "unloaded" /\ call = "none")

\* C10 (amended): on a platform that is neither Linux nor Darwin the module
\* is initialized with no backend bound, and every query made afterwards
\* ends with NameError, having performed no platform I/O and returning
\* nothing.
C10_QueryFails ==
    platform \notin Supported =>
        /\ backend = "unbound"
        /\ pc \in {"unloaded", "ready", "done"}
        /\ pc = "done" => (outcome = "NameError" /\ io = << >> /\ result = << >>)

\* C10 witness: endpoints() has been called after the module was initialized
\* on Windows, and ended with NameError.
C10_Witness ==
    /\ platform = "Windows" /\ pc = "done" /\ call = "endpoints"
    /\ outcome = "NameError"

----------------------------------------------------------------------------
(* The order of the records of darwin.usbinfo() *)

\* The roots of the dump, those of the first host-controller class first
DumpRoots == registry.xhci \o registry.ehci

RECURSIVE PathsOf(_)
\* The positions in a list of trees: the index of a root, then child indices
PathsOf(nodes) ==
    UNION { {<<i>>} \cup { <<i>> \o q : q \in PathsOf(nodes[i].children) } :
                i \in 1..Len(nodes) }

RECURSIVE NodeAt(_, _)
NodeAt(nodes, p) ==
    IF Len(p) = 1 THEN nodes[p[1]] ELSE NodeAt(nodes[p[1]].children, Tail(p))

RECURSIVE Precedes(_, _)
\* p comes before q in pre-order: p is a proper ancestor of q, or where the
\* two part p takes the earlier root or child
Precedes(p, q) ==
    IF Len(p) = 0 THEN Len(q) > 0
    ELSE IF Len(q) = 0 THEN FALSE
    ELSE IF p[1] # q[1] THEN p[1] < q[1]
    ELSE Precedes(Tail(p), Tail(q))

\* The positions of the nodes that carry sessionID
DevicePaths == {p \in PathsOf(DumpRoots) : HasProp(NodeAt(DumpRoots, p), "sessionID")}

\* The place of a position among those of a set, in pre-order
Rank(paths, p) == 1 + Cardinality({q \in paths : Precedes(q, p)})

\* The device nodes of the dump by their place in pre-order
DevicesInPreOrder ==
    LET paths == DevicePaths
    IN [r \in 1..Cardinality(paths) |->
           NodeAt(DumpRoots, CHOOSE p \in paths : Rank(paths, p) = r)]

\* The records of one device node: 1 + N for N direct interface children,
\* none for a node that C1 excludes
BlockSize(node) ==
    IF IsUsbDeviceNode(node) THEN 1 + NumInterfaceChildren(node) ELSE 0

RECURSIVE RecordsBefore(_, _)
\* The number of records of the first r - 1 nodes of a list of device nodes
RecordsBefore(nodes, r) ==
    IF r <= 1 THEN 0
    ELSE RecordsBefore(nodes, r - 1) + BlockSize(nodes[r - 1])

\* The m-th direct interface child of a node, in child order
InterfaceChild(node, m) ==
    node.children[CHOOSE k \in 1..Len(node.children) :
                      /\ IsInterfaceNode(node.children[k])
                      /\ InterfacesAmong(node, k) = m]

\* C13: on Darwin the device nodes are gone through in the pre-order of the
\* dump, the roots of the first host-controller class first and nested device
\* nodes included; and the list returned is, device node after device node in
\* that order, the device-level record followed at once by the records of the
\* node's direct interface children in child order: 1 + N records for a
\* device node with both identifiers and N such children.
C13_PreOrderBlocks ==
    (platform = "Darwin" /\ call = "usbinfo"
         /\ (pc = "done" \/ (pc = "darwin_loop" /\ dev_i = 1 /\ child_i = 0))
         /\ outcome \in {"none", "returned"}) =>
        LET nodes == DevicesInPreOrder
        IN /\ devices = nodes
           /\ pc = "done" =>
                  /\ Len(result) = RecordsBefore(nodes, Len(nodes) + 1)
                  /\ \A r \in 1..Len(nodes) :
                         LET at == RecordsBefore(nodes, r) + 1
                         IN IsUsbDeviceNode(nodes[r]) =>
                                /\ result[at] = DeviceInfo(nodes[r])
                                /\ \A m \in 1..NumInterfaceChildren(nodes[r]) :
                                       result[at + m] =
                                           InterfaceInfo(DeviceInfo(nodes[r]),
                                                         InterfaceChild(nodes[r], m),
                                                         os_minor, extra_devs, mounts)

\* C13 witness: a query returned seven records for a dump whose first root
\* has an interface, a nested device node and another interface under it, and
\* whose second root is of the second host-controller class: the record of
\* interface 10 of the first root comes third, before the records of the
\* nested device node.
C13_Witness ==
    /\ platform = "Darwin" /\ call = "usbinfo" /\ pc = "done" /\ outcome = "returned"
    /\ Len(registry.xhci) = 1 /\ Len(registry.ehci) = 1
    /\ Len(devices) = 3
    /\ devices[2] = devices[1].children[2]
    /\ Len(result) = 7
    /\ result[3]["bInterfaceNumber"] = Str(<<"1", "0">>)
    /\ result[3]["idProduct"] = Str(<<"8", "0", "0", "7">>)
    /\ result[4]["bInterfaceNumber"] = Str(EmptyStr)
    /\ result[4]["idProduct"] = Str(<<"f", "f", "f", "f">>)

----------------------------------------------------------------------------
(* The search of the parallel trees and the device path of an interface *)

RECURSIVE PreOrderOf(_)
\* The nodes of a list of trees in pre-order
PreOrderOf(nodes) ==
    IF Len(nodes) = 0 THEN << >>
    ELSE <<Head(nodes)>> \o PreOrderOf(Head(nodes).children) \o PreOrderOf(Tail(nodes))

\* A node carries the key with the value; no node carries an absent value.
Carries(node, key, value) == value # << >> /\ NodeGet(node, key) = value

\* The first node of the tree, in pre-order, that carries the key with the
\* value: <<node>>, or << >> when there is none
FirstCarrying(root, key, value) ==
    LET nodes == PreOrderOf(<<root>>)
        hits == {i \in 1..Len(nodes) : Carries(nodes[i], key, value)}
    IN IF hits = {} THEN << >>
       ELSE <<nodes[CHOOSE i \in hits : \A j \in hits : i <= j]>>

\* The identifier that the parallel trees are searched for
SearchedID(child) == NodeGet(child, "IORegistryEntryID")

SearchOf(i, child) ==
    _match_node_property(extra_devs[i], "AppleUSBAlternateServiceRegistryID",
                         SearchedID(child))

\* The searches that the loop over _el_capitan_extras makes for an interface
\* child: one per node of the list, up to the first that returns a node
SearchesMade(child) ==
    {i \in 1..Len(extra_devs) : \A j \in 1..(i - 1) : SearchOf(j, child) = << >>}

\* The next step of darwin.usbinfo() builds the record of an interface child
AtInterface ==
    /\ platform = "Darwin" /\ pc = "darwin_loop"
    /\ child_i >= 1 /\ child_i <= Len(CurrentNode.children)
    /\ IsInterfaceNode(CurrentChild) /\ HasInterfaceNumbers(CurrentChild)

\* C14 (as claimed): every search that darwin.usbinfo() makes with
\* _match_node_property returns the first node of the tree, in pre-order, that
\* carries AppleUSBAlternateServiceRegistryID with the interface's identifier,
\* and no node when no node of the tree carries it or the interface has no
\* identifier.
C14_MatchIsDepthFirstSearch ==
    (AtInterface /\ os_minor >= ElCapitanMinor) =>
        \A i \in SearchesMade(CurrentChild) :
            SearchOf(i, CurrentChild) =
                FirstCarrying(extra_devs[i], "AppleUSBAlternateServiceRegistryID",
                              SearchedID(CurrentChild))

\* The device path that a node yields as a serial client or as a disk
\* partition scheme: <<path>>, or << >>
PathYielded(node) ==
    IF NodeGet(node, "IOObjectClass") = <<"IOSerialBSDClient">>
           /\ HasProp(node, "IODialinDevice")
    THEN <<node.props["IODialinDevice"]>>
    ELSE IF NodeGet(node, "IOObjectClass") = <<"IOFDiskPartitionScheme">>
                /\ \E k \in 1..Len(node.children) : HasProp(node.children[k], "BSD Name")
    THEN <<Dev \o node.children[CHOOSE k \in 1..Len(node.children) :
                      /\ HasProp(node.children[k], "BSD Name")
                      /\ \A j \in 1..(k - 1) : ~HasProp(node.children[j], "BSD Name")
                  ].props["BSD Name"]>>
    ELSE << >>

\* The device path of the last descendant of a node, in pre-order, that
\* yields one: <<path>>, or << >>
SubtreePath(node) ==
    LET below == PreOrderOf(node.children)
        yielding == {i \in 1..Len(below) : PathYielded(below[i]) # << >>}
    IN IF yielding = {} THEN << >>
       ELSE PathYielded(below[CHOOSE i \in yielding : \A j \in yielding : j <= i])

\* The first element of a sequence of options that is a node; << >> if none
FirstNode(options) ==
    LET some == {i \in 1..Len(options) : options[i] # << >>}
    IN IF some = {} THEN << >>
       ELSE options[CHOOSE i \in some : \A j \in some : i <= j]

\* The node that correlates with an interface child: the first node, in
\* pre-order, of the first parallel tree in which a node carries the child's
\* identifier
CorrelatedNode(child) ==
    FirstNode([i \in 1..Len(extra_devs) |->
                  FirstCarrying(extra_devs[i], "AppleUSBAlternateServiceRegistryID",
                                SearchedID(child))])

\* The node that the searches of the loop over _el_capitan_extras end with
SearchedNode(child) ==
    FirstNode([i \in 1..Len(extra_devs) |-> SearchOf(i, child)])

\* The device path of an interface child with local precedence: its own, or
\* else that of the node of the parallel trees, or else the empty string
PathWith(child, parallel) ==
    IF SubtreePath(child) # << >> THEN SubtreePath(child)[1]
    ELSE IF parallel # << >> /\ SubtreePath(parallel[1]) # << >>
    THEN SubtreePath(parallel[1])[1]
    ELSE EmptyStr

\* The interface child whose record was appended last
LastChild == CurrentNode.children[child_i - 1]

\* The record just appended has the device path, and the mount of that path
RecordHasPath(path) ==
    LET record == info_list[Len(info_list)]
    IN /\ record["devname"] = Str(path)
       /\ ("mount" \in DOMAIN record) <=> (path \in DOMAIN mounts)
       /\ ("mount" \in DOMAIN record) => record["mount"] = Str(mounts[path])

\* The record of an interface child has just been appended, on a version
\* with the parallel trees
InterfaceAppended ==
    /\ platform = "Darwin" /\ pc = "darwin_loop" /\ os_minor >= ElCapitanMinor
    /\ child_i >= 2 /\ IsInterfaceNode(LastChild)

\* C15 (as claimed): on Darwin from minor version 11 on, the devname of the
\* record of an interface child is the device path of the last descendant of
\* the child, in pre-order, that yields one; without such a descendant it is
\* the path from the subtree of the correlated node of the first parallel
\* tree that has one, the later trees not counting; without either it is the
\* empty string of the device-level record.  The record has a mount exactly
\* when this devname is a key of the mount mapping.
C15_DevicePathResolved ==
    InterfaceAppended => RecordHasPath(PathWith(LastChild, CorrelatedNode(LastChild)))

\* The merge of darwin.usbinfo() gives the same precedence to the node that
\* its own searches end with.
MergeOrderAgrees ==
    InterfaceAppended => RecordHasPath(PathWith(LastChild, SearchedNode(LastChild)))

IsCompleteInterface(child) == IsInterfaceNode(child) /\ HasInterfaceNumbers(child)

RECURSIVE RecordsSkipping(_)
\* The records of the device nodes that have both identifiers and of their
\* interface children that have both numbers, the other nodes being skipped
RecordsSkipping(devs) ==
    IF Len(devs) = 0 THEN << >>
    ELSE (IF ~IsUsbDeviceNode(Head(devs)) THEN << >>
          ELSE LET info == DeviceInfo(Head(devs))
                   ifs == SelectSeq(Head(devs).children, IsCompleteInterface)
               IN <<info>> \o [k \in 1..Len(ifs) |->
                                  InterfaceInfo(info, ifs[k], os_minor, extra_devs, mounts)])
             \o RecordsSkipping(Tail(devs))

\* C16 (as claimed): on Darwin, for every parsed dump, usbinfo() returns a
\* list: the records of the device nodes and interface nodes that have their
\* fields, a device node without idVendor or idProduct and an interface node
\* without bInterfaceNumber or bNumEndpoints being skipped.
C16_LackingNodesSkipped ==
    (platform = "Darwin" /\ python = 2 /\ call = "usbinfo" /\ pc = "done") =>
        /\ outcome = "returned"
        /\ result = RecordsSkipping(devices)

----------------------------------------------------------------------------
(* The normalizer on the raw records of the backends *)

MaxInterface == 11  \* the largest interface number and endpoint count reported

\* The registry node of an interface that reports number n and e endpoints
ReportingInterface(n, e) == Node(IfClass @@ IfNumbers(n, e), << >>)

\* The raw records of darwin.usbinfo() for devices and interfaces that report
\* the numbers up to MaxInterface
DarwinRawRecords ==
    LET infos == { DeviceInfo(Leaf(Session @@ Identity(v, p) @@ Names)) :
                       v \in {0, VidApple}, p \in {PidHub, MaxId16} }
    IN infos \cup
       { InterfaceInfo(info, ReportingInterface(n, e), ElCapitanMinor - 1, << >>, EmptyMap) :
             info \in infos, n \in 0..MaxInterface, e \in {0, MaxInterface} }

\* The device manager reports the interface number as two hexadecimal digits.
LinuxInterfaceNum(n) == ZeroPad(Digits(n, 16), 2)

\* The raw records of linux.usbinfo() for devices that report the interface
\* numbers up to MaxInterface, or none
LinuxRawRecords ==
    { LinuxRecord([ok |-> TRUE, props |-> p], EmptyMap) :
          p \in { [ID_VENDOR_ID |-> <<"0", "5", "a", "c">>,
                   ID_MODEL_ID |-> <<"8", "0", "0", "7">>] }
                \cup { [ID_VENDOR_ID |-> v, ID_MODEL_ID |-> <<"8", "0", "0", "7">>,
                        ID_USB_INTERFACE_NUM |-> LinuxInterfaceNum(n)] :
                           v \in {<<"0", "5", "a", "c">>, <<"0", "0", "0", "1">>},
                           n \in 0..MaxInterface } }

InitNormalizer ==
    /\ platform \in Supported
    /\ python = 2
    /\ data = << >>
    /\ sanitized = << >>
    /\ info_list \in { <<r>> : r \in IF platform = "Darwin"
                                     THEN DarwinRawRecords ELSE LinuxRawRecords }
    /\ mounts = EmptyMap
    /\ listing = << >>
    /\ registry = NoTrees
    /\ os_minor = 0
    /\ extras = NoExtras
    /\ backend = BoundBackend(platform)
    /\ pc = "normalize"
    /\ call = "none"
    /\ filters = << >>
    /\ devices = << >>
    /\ extra_devs = << >>
    /\ dev_i = 0
    /\ child_i = 0
    /\ devinfo = EmptyMap
    /\ io = << >>
    /\ outcome = "none"
    /\ result = << >>

\* [_usbinfo_dict_to_endpoint(ep_dict) for ep_dict in ...] on the raw records
Normalize ==
    /\ pc = "normalize"
    /\ pc' = "done"
    /\ outcome' = EndpointsOf(info_list, << >>).outcome
    /\ result' = EndpointsOf(info_list, << >>).value
    /\ UNCHANGED <<env, backend, call, filters, locals, io>>

NextNormalizer == Normalize

SpecNormalizer == InitNormalizer /\ [][NextNormalizer]_vars

\* The integer that a backend's string for a number stands for: Darwin
\* writes it with str(), the device manager of Linux in hexadecimal.
Reported(s) == IF platform = "Darwin" THEN DecValue(s) ELSE HexValue(s)

\* The typed value of a numeric field of a raw record, as claimed
Faithful(raw, key) ==
    IF key \notin DOMAIN raw \/ raw[key].v = EmptyStr THEN None
    ELSE IntV(Reported(raw[key].v))

\* C9 (as claimed): the normalizer gives id_vendor and id_product the value of
\* the hexadecimal strings, and gives interface and num_endpoints the integer
\* that the platform reported, or None when the raw field is empty or absent.
C9_NumbersFaithful ==
    pc = "done" =>
        /\ outcome = "returned"
        /\ LET raw == info_list[1]
               ep == result[1]
           IN /\ ep["id_vendor"] = IntV(HexValue(raw["idVendor"].v))
              /\ ep["id_product"] = IntV(HexValue(raw["idProduct"].v))
              /\ ep["interface"] = Faithful(raw, "bInterfaceNumber")
              /\ ep["num_endpoints"] = Faithful(raw, "bNumEndpoints")

----------------------------------------------------------------------------
(* _sanitize_xml on registry dumps *)

MaxLines == 2       \* the most lines of a dump

\* The payloads of <string> lines, as code points: plain, with a control
\* character, with U+00E9 and a tab, with U+00E9 alone, with U+2122 alone
PayloadPlain == <<115, 49>>
PayloadControl == <<1, 65>>
PayloadLatinControl == <<233, 9>>
PayloadLatin == <<233>>
PayloadWide == <<8482>>

StringLine(indent, payload, tail) ==
    Utf8Encode(indent \o OpenTag \o payload \o CloseTag \o tail)

\* <key>, a control character, </key>
KeyLine == <<60, 107, 101, 121, 62, 1, 60, 47, 107, 101, 121, 62>>

\* The lines of the dumps: <string> lines at the start of the line or after a
\* tab and before a carriage return; a <key> line with a control character; a
\* <string> element after other text; a <string> line with a control
\* character after its first </string>; a byte that is no UTF-8; an empty line
DumpLines ==
    { StringLine(<< >>, p, << >>) :
          p \in {PayloadPlain, PayloadControl, PayloadLatinControl, PayloadLatin,
                 PayloadWide} }
    \cup { StringLine(<<9>>, PayloadControl, <<13>>),
           KeyLine,
           <<120>> \o StringLine(<< >>, PayloadControl, << >>),
           StringLine(<< >>, PayloadPlain, <<1>> \o CloseTag),
           <<255>>,
           << >> }

Dumps == { JoinLines(q) : q \in SeqsUpTo(DumpLines, MaxLines) }

InitSanitizer ==
    /\ platform = "Darwin"
    /\ python \in Pythons
    /\ data \in Dumps
    /\ sanitized = << >>
    /\ mounts = EmptyMap
    /\ listing = << >>
    /\ registry = NoTrees
    /\ os_minor = ElCapitanMinor
    /\ extras = NoExtras
    /\ backend = BoundBackend(platform)
    /\ pc = "sanitize"
    /\ call = "none"
    /\ filters = << >>
    /\ devices = << >>
    /\ extra_devs = << >>
    /\ dev_i = 0
    /\ child_i = 0
    /\ devinfo = EmptyMap
    /\ info_list = << >>
    /\ io = << >>
    /\ outcome = "none"
    /\ result = << >>

unsanitized == <<platform, python, os_minor, listing, registry, extras, mounts, data,
                 backend, call, filters, locals, io, result>>

\* output = _sanitize_xml(output) on the dump
Sanitize ==
    /\ pc = "sanitize"
    /\ LET out == _sanitize_xml(python, data)
       IN /\ outcome' = out.outcome
          /\ sanitized' = IF out.outcome = "returned" THEN <<out.v>> ELSE << >>
          /\ pc' = IF out.outcome = "returned" THEN "sanitized" ELSE "done"
    /\ UNCHANGED unsanitized

\* _sanitize_xml on the text that _sanitize_xml returned
SanitizeAgain ==
    /\ pc = "sanitized"
    /\ LET out == _sanitize_xml(python, sanitized[1])
       IN /\ outcome' = out.outcome
          /\ sanitized' = IF out.outcome = "returned"
                          THEN Append(sanitized, out.v) ELSE sanitized
          /\ pc' = "done"
    /\ UNCHANGED unsanitized

NextSanitizer ==
    \/ Sanitize
    \/ SanitizeAgain

SpecSanitizer == InitSanitizer /\ [][NextSanitizer]_vars

HexUpperChars == {HexUpper(d) : d \in 0..15}

\* The lines of a text
LinesOf(bytes) == SplitLines(bytes)

\* C11: whenever _sanitize_xml returns a text, _sanitize_xml of that text
\* returns and returns the same text; and every line that the first pass
\* rewrote has, in the text returned, a payload of upper-case hexadecimal
\* digits only, two per character of the payload it replaces, that the second
\* pass leaves as it is.
C11_SanitizeIdempotent ==
    /\ (pc = "done" /\ sanitized # << >>) =>
           (outcome = "returned" /\ Len(sanitized) = 2 /\ sanitized[2] = sanitized[1])
    /\ sanitized # << >> =>
           LET before == LinesOf(data)
               after == LinesOf(sanitized[1])
           IN /\ Len(after) = Len(before)
              /\ \A i \in 1..Len(before) :
                     after[i] # before[i] =>
                         LET old == SanitizeMatch(Utf8Decode(before[i]).v)
                             new == SanitizeMatch(Utf8Decode(after[i]).v)
                         IN /\ old # << >> /\ new # << >>
                            /\ new[1].start = old[1].start
                            /\ new[1].end = old[1].end
                            /\ Len(new[1].middle) = 2 * Len(old[1].middle)
                            /\ \A k \in 1..Len(new[1].middle) :
                                   new[1].middle[k] \in HexUpperChars

\* C11 witness: the second pass returned, on a text of two lines in which the
\* first pass rewrote the payload <U+00E9, tab> of the first line to E909 and
\* left the second line alone.
C11_Witness ==
    /\ pc = "done" /\ Len(sanitized) = 2
    /\ data = JoinLines(<<StringLine(<< >>, PayloadLatinControl, << >>), KeyLine>>)
    /\ sanitized[2] = JoinLines(<<StringLine(<< >>, <<69, 57, 48, 57>>, << >>), KeyLine>>)

\* The text is UTF-8.
IsText(bytes) == Utf8Decode(bytes).ok

\* No <string> payload of the text has a character with a code below 32.
CleanPayloads(bytes) ==
    \A i \in 1..Len(LinesOf(bytes)) :
        LET match == SanitizeMatch(Utf8Decode(LinesOf(bytes)[i]).v)
        IN match # << >> =>
               \A k \in 1..Len(match[1].middle) : match[1].middle[k] >= ControlLimit

\* C12 (as claimed): _sanitize_xml raises on no text; a text whose <string>
\* payloads have no character below 32 is returned as it is; and every line
\* that does not match the pattern is in the text returned, in its place, as
\* it was.
C12_CleanTextUnchanged ==
    (pc # "sanitize" /\ IsText(data)) =>
        /\ sanitized # << >>
        /\ CleanPayloads(data) => sanitized[1] = data
        /\ Len(LinesOf(sanitized[1])) = Len(LinesOf(data))
        /\ \A i \in 1..Len(LinesOf(data)) :
               SanitizeMatch(Utf8Decode(LinesOf(data)[i]).v) = << >> =>
                   LinesOf(sanitized[1])[i] = LinesOf(data)[i]

====
